---- MODULE Spec2Model ----
(***************************************************************************)
(* Model of backend/utils.py: the module globals SYSTEM_PROMPT and         *)
(* MODEL_NAME and the function get_agent_response, which prepends the      *)
(* system prompt to a conversation history when the history does not       *)
(* already start with a system message, calls litellm.completion once,     *)
(* strips the reply and returns the working list with one assistant        *)
(* message appended.                                                       *)
(*                                                                         *)
(* Python values are modelled as follows.  A str is a sequence of          *)
(* one-character strings.  A message dict is a record [role, content].     *)
(* A list object lives in a heap cell and local variables hold references  *)
(* to cells, so that "current_messages = messages" is an alias and         *)
(* "a + b" is a new list.  A value whose type matters at run time (the     *)
(* content field of the provider response) carries its type tag.  An       *)
(* expression that can raise evaluates to Ok(v) or Raise(e).               *)
(***************************************************************************)
EXTENDS Integers, Sequences, FiniteSets, TLC

\* ---- bounds ---------------------------------------------------------------

\* longest history a caller passes in the sequential specification
MaxHist == 2
\* longest reply text the provider returns in the sequential specification
MaxReply == 3
\* longest history a caller passes in the concurrent specification
MaxConcHist == 1
\* longest reply text the provider returns in the concurrent specification
MaxConcReply == 1

\* ---- values ---------------------------------------------------------------

Callers == {1, 2}

Roles == {"system", "user", "assistant"}

\* characters str.strip() removes, and the characters of the model
Whitespace == {" ", "\n"}
Letter(c) == IF c = 1 THEN "a" ELSE "b"

\* the text of the module constant SYSTEM_PROMPT: it starts and ends with a
\* newline, the body is abstracted to one character
SYSTEM_PROMPT == <<"\n", "P", "\n">>

\* os.environ.get("MODEL_NAME", "gpt-4o-mini"): the default or the
\* environment's value
ModelNames == {"gpt-4o-mini", "env-model"}

SeqsUpTo(S, n) == UNION {[1..k -> S] : k \in 0..n}

Message(role, content) == [role |-> role, content |-> content]

\* the histories of the sequential specification: user and assistant turns,
\* and system messages that carry the system prompt or another text
SeqMessages ==
    {Message(r, <<"a">>) : r \in Roles} \cup {Message("system", SYSTEM_PROMPT)}
SeqHistories == SeqsUpTo(SeqMessages, MaxHist)

\* the histories of caller c in the concurrent specification: every text is
\* the caller's own letter
ConcHistories(c) == SeqsUpTo({Message(r, <<Letter(c)>>) : r \in Roles}, MaxConcHist)

\* typed Python values
PyStr(s) == [type |-> "str", val |-> s]
PyNone == [type |-> "NoneType"]
PyInt == [type |-> "int"]
Unbound == [type |-> "unbound"]

\* provider responses: {choices: [{message: {content: ...}}]}
Choice(content) == [message |-> [role |-> "assistant", content |-> content]]
OkResponse(s) == [choices |-> <<Choice(PyStr(s))>>]

\* the response shapes that lack choices[0].message.content as a str; the
\* content values are the JSON types a response can carry
MalformedResponses ==
    { [id |-> "chatcmpl"],
      [choices |-> <<>>],
      [choices |-> << [finish_reason |-> "stop"] >>],
      [choices |-> << [message |-> [role |-> "assistant"]] >>],
      [choices |-> << Choice(PyNone) >>],
      [choices |-> << Choice(PyInt) >>],
      [choices |-> << Choice(PyNone), Choice(PyStr(<<"z">>)) >>] }

Replies(c, n) == SeqsUpTo(Whitespace \cup {Letter(c)}, n)

Responses(c, n) ==
    {OkResponse(s) : s \in Replies(c, n)}
        \cup { [choices |-> << Choice(PyStr(<<Letter(c)>>)), Choice(PyStr(<<"z">>)) >>] }
        \cup MalformedResponses

\* the exceptions litellm.completion raises
ProviderErrors == {"APIConnectionError", "AuthenticationError"}

\* ---- evaluation that can raise -------------------------------------------

Ok(v) == [raised |-> FALSE, val |-> v]
Raise(e) == [raised |-> TRUE, exc |-> e]

\* d[k] on a mapping
GetItem(d, k) == IF k \in DOMAIN d THEN Ok(d[k]) ELSE Raise("KeyError")

\* l[0] on a list
GetFirst(l) == IF Len(l) >= 1 THEN Ok(l[1]) ELSE Raise("IndexError")

RECURSIVE lstrip(_)
lstrip(s) ==
    IF s # <<>> /\ Head(s) \in Whitespace THEN lstrip(Tail(s)) ELSE s

RECURSIVE rstrip(_)
rstrip(s) ==
    IF s # <<>> /\ s[Len(s)] \in Whitespace
    THEN rstrip(SubSeq(s, 1, Len(s) - 1))
    ELSE s

\* a mutation of strip: only the leading whitespace is removed
StripLeadingOnly(s) == lstrip(s)

\* str.strip()
strip(s) == rstrip(lstrip(s))

\* v.strip(): only a str has the method
CallStrip(v) ==
    IF v.type = "str" THEN Ok(PyStr(strip(v.val))) ELSE Raise("AttributeError")

\* a mutation of ReplyContent: every missing part defaults to the empty text
ReplyContentOrDefault(completion) ==
    IF "choices" \notin DOMAIN completion \/ completion.choices = <<>>
    THEN Ok(PyStr(<<>>))
    ELSE LET ch == completion.choices[1] IN
         IF "message" \notin DOMAIN ch THEN Ok(PyStr(<<>>))
         ELSE IF "content" \notin DOMAIN ch.message THEN Ok(PyStr(<<>>))
         ELSE IF ch.message.content.type # "str" THEN Ok(PyStr(<<>>))
         ELSE Ok(PyStr(strip(ch.message.content.val)))

\* completion["choices"][0]["message"]["content"].strip()
ReplyContent(completion) ==
    LET choices == GetItem(completion, "choices") IN
    IF choices.raised THEN choices
    ELSE LET first == GetFirst(choices.val) IN
    IF first.raised THEN first
    ELSE LET message == GetItem(first.val, "message") IN
    IF message.raised THEN message
    ELSE LET content == GetItem(message.val, "content") IN
    IF content.raised THEN content
    ELSE CallStrip(content.val)

\* ---- the prompt rule ------------------------------------------------------

\* a mutation of NeedsSystemPrompt: the prompt is injected into every history
AlwaysInject(messages) == TRUE

\* a mutation of NeedsSystemPrompt: only the empty history gets the prompt
InjectOnlyWhenEmpty(messages) == messages = <<>>

\* not messages or messages[0]["role"] != "system"
NeedsSystemPrompt(messages) ==
    messages = <<>> \/ messages[1].role # "system"

\* a mutation of WithSystemPrompt: the prompt is put after the history
PromptLast(messages, prompt) ==
    messages \o <<Message("system", prompt)>>

\* [{"role": "system", "content": SYSTEM_PROMPT}] + messages
WithSystemPrompt(messages, prompt) ==
    <<Message("system", prompt)>> \o messages

\* ---- state ----------------------------------------------------------------

VARIABLES
    system_prompt,  \* the module global SYSTEM_PROMPT
    model_name,     \* the module global MODEL_NAME
    pc,             \* per caller: where its invocation stands
    heap,           \* per caller: the list objects of its invocation
    locals,         \* per frame: the local variables of get_agent_response
    passed,         \* per caller: the history as it was when passed in
    fedBack,        \* per caller: the invocation's argument is the list a first call returned
    requests,       \* per caller: the requests the provider received from its invocation
    provider_out,   \* per caller: what the provider answered
    ret,            \* per caller: the reference get_agent_response returned
    exc             \* per caller: the exception that left get_agent_response

vars == <<system_prompt, model_name, pc, heap, locals, passed, fedBack,
          requests, provider_out, ret, exc>>

Ref(c, slot) == [owner |-> c, slot |-> slot]
NoRef == [owner |-> 0, slot |-> "none"]
Deref(hp, r) == hp[r.owner][r.slot]

NoLists == [arg |-> <<>>, working |-> <<>>, updated |-> <<>>]

EmptyFrame ==
    [messages |-> NoRef, current_messages |-> NoRef, completion |-> Unbound,
     assistant_reply_content |-> Unbound, updated_messages |-> NoRef]

NoOutcome == [kind |-> "none"]

\* a mutation of Frame: the locals are module globals shared by every caller
SharedFrame(c) == 1

\* every invocation has its own frame of local variables
Frame(c) == c

Init ==
    /\ system_prompt = SYSTEM_PROMPT
    /\ model_name \in ModelNames
    /\ pc = [c \in Callers |-> "idle"]
    /\ heap = [c \in Callers |-> NoLists]
    /\ locals = [f \in Callers |-> EmptyFrame]
    /\ passed = [c \in Callers |-> <<>>]
    /\ fedBack = [c \in Callers |-> FALSE]
    /\ requests = [c \in Callers |-> <<>>]
    /\ provider_out = [c \in Callers |-> NoOutcome]
    /\ ret = [c \in Callers |-> NoRef]
    /\ exc = [c \in Callers |-> "none"]

\* ---- get_agent_response ---------------------------------------------------

\* the caller calls get_agent_response(h): h is a list object of the caller,
\* bound to the parameter messages
Call(c, h) ==
    /\ pc[c] = "idle"
    /\ pc' = [pc EXCEPT ![c] = "line156"]
    /\ heap' = [heap EXCEPT ![c] = [NoLists EXCEPT !.arg = h]]
    /\ locals' = [locals EXCEPT ![Frame(c)] =
                     [EmptyFrame EXCEPT !.messages = Ref(c, "arg")]]
    /\ passed' = [passed EXCEPT ![c] = h]
    /\ UNCHANGED <<system_prompt, model_name, fedBack, requests,
                   provider_out, ret, exc>>

\* lines 156-159: the working list is a new list with the prompt in front,
\* or the caller's own list
EnsureSystemPrompt(c) ==
    /\ pc[c] = "line156"
    /\ LET f == Frame(c)
           messages == locals[f].messages
       IN IF NeedsSystemPrompt(Deref(heap, messages))
          THEN /\ heap' = [heap EXCEPT ![c].working =
                              WithSystemPrompt(Deref(heap, messages), system_prompt)]
               /\ locals' = [locals EXCEPT ![f].current_messages = Ref(c, "working")]
          ELSE /\ heap' = heap
               /\ locals' = [locals EXCEPT ![f].current_messages = messages]
    /\ pc' = [pc EXCEPT ![c] = "line161"]
    /\ UNCHANGED <<system_prompt, model_name, passed, fedBack, requests,
                   provider_out, ret, exc>>

\* lines 161-164: litellm.completion(model=MODEL_NAME, messages=current_messages)
\* is entered; the provider receives the request
Completion(c) ==
    /\ pc[c] = "line161"
    /\ requests' = [requests EXCEPT ![c] =
                       Append(@, [model |-> model_name,
                                  messages |-> Deref(heap, locals[Frame(c)].current_messages)])]
    /\ pc' = [pc EXCEPT ![c] = "awaiting"]
    /\ UNCHANGED <<system_prompt, model_name, heap, locals, passed, fedBack,
                   provider_out, ret, exc>>

\* a mutation of Unhandled: the failure is caught and the working list is
\* returned with an empty assistant message
CaughtWithPlaceholder(c, e) ==
    /\ pc' = [pc EXCEPT ![c] = "returned"]
    /\ heap' = [heap EXCEPT ![c].updated =
                   Deref(heap, locals[Frame(c)].current_messages)
                       \o <<Message("assistant", <<>>)>>]
    /\ ret' = [ret EXCEPT ![c] = Ref(c, "updated")]
    /\ exc' = exc

\* a mutation of Unhandled: the failure is caught and the call is made again
RetryOnError(c, e) ==
    /\ pc' = [pc EXCEPT ![c] = "line161"]
    /\ UNCHANGED <<heap, ret, exc>>

\* get_agent_response has no try statement: an exception raised inside it
\* leaves it as it is, nothing is returned
Unhandled(c, e) ==
    /\ pc' = [pc EXCEPT ![c] = "raised"]
    /\ exc' = [exc EXCEPT ![c] = e]
    /\ UNCHANGED <<heap, ret>>

\* litellm.completion returns resp, which is bound to completion
ProviderReturns(c, resp) ==
    /\ pc[c] = "awaiting"
    /\ provider_out' = [provider_out EXCEPT ![c] = [kind |-> "return", value |-> resp]]
    /\ locals' = [locals EXCEPT ![Frame(c)].completion = resp]
    /\ pc' = [pc EXCEPT ![c] = "line166"]
    /\ UNCHANGED <<system_prompt, model_name, heap, passed, fedBack, requests,
                   ret, exc>>

\* litellm.completion raises e
ProviderRaises(c, e) ==
    /\ pc[c] = "awaiting"
    /\ provider_out' = [provider_out EXCEPT ![c] = [kind |-> "raise", exc |-> e]]
    /\ Unhandled(c, e)
    /\ UNCHANGED <<system_prompt, model_name, locals, passed, fedBack, requests>>

\* lines 166-169: the reply text is taken out of the response and stripped
ExtractReply(c) ==
    /\ pc[c] = "line166"
    /\ LET f == Frame(c)
           r == ReplyContent(locals[f].completion)
       IN IF r.raised
          THEN /\ Unhandled(c, r.exc)
               /\ locals' = locals
          ELSE /\ locals' = [locals EXCEPT ![f].assistant_reply_content = r.val]
               /\ pc' = [pc EXCEPT ![c] = "line172"]
               /\ UNCHANGED <<heap, ret, exc>>
    /\ UNCHANGED <<system_prompt, model_name, passed, fedBack, requests,
                   provider_out>>

\* a mutation of ListPlus: list.append, which changes the list cur names
ListAppendInPlace(hp, c, cur, msg) ==
    [heap |-> [hp EXCEPT ![cur.owner][cur.slot] = @ \o <<msg>>],
     ref |-> cur]

\* a mutation of ListPlus: the new message is put in front
ListPlusInFront(hp, c, cur, msg) ==
    [heap |-> [hp EXCEPT ![c].updated = <<msg>> \o Deref(hp, cur)],
     ref |-> Ref(c, "updated")]

\* current_messages + [msg]: a new list object, the operands are left alone
ListPlus(hp, c, cur, msg) ==
    [heap |-> [hp EXCEPT ![c].updated = Deref(hp, cur) \o <<msg>>],
     ref |-> Ref(c, "updated")]

\* lines 172-173: the updated list is built and returned
AppendReply(c) ==
    /\ pc[c] = "line172"
    /\ LET f == Frame(c)
           new == ListPlus(heap, c, locals[f].current_messages,
                           Message("assistant", locals[f].assistant_reply_content.val))
       IN /\ heap' = new.heap
          /\ locals' = [locals EXCEPT ![f].updated_messages = new.ref]
          /\ ret' = [ret EXCEPT ![c] = new.ref]
    /\ pc' = [pc EXCEPT ![c] = "returned"]
    /\ UNCHANGED <<system_prompt, model_name, passed, fedBack, requests,
                   provider_out, exc>>

\* the caller feeds the list a first call returned into a second call
FeedBack(c) ==
    /\ pc[c] = "returned"
    /\ ~fedBack[c]
    /\ fedBack' = [fedBack EXCEPT ![c] = TRUE]
    /\ pc' = [pc EXCEPT ![c] = "line156"]
    /\ heap' = [heap EXCEPT ![c] = [NoLists EXCEPT !.arg = Deref(heap, ret[c])]]
    /\ locals' = [locals EXCEPT ![Frame(c)] =
                     [EmptyFrame EXCEPT !.messages = Ref(c, "arg")]]
    /\ passed' = [passed EXCEPT ![c] = Deref(heap, ret[c])]
    /\ requests' = [requests EXCEPT ![c] = <<>>]
    /\ provider_out' = [provider_out EXCEPT ![c] = NoOutcome]
    /\ ret' = [ret EXCEPT ![c] = NoRef]
    /\ UNCHANGED <<system_prompt, model_name, exc>>

\* ---- specifications -------------------------------------------------------

\* one caller, two calls in sequence
Next ==
    \/ \E h \in SeqHistories : Call(1, h)
    \/ EnsureSystemPrompt(1)
    \/ Completion(1)
    \/ \E resp \in Responses(1, MaxReply) : ProviderReturns(1, resp)
    \/ \E e \in ProviderErrors : ProviderRaises(1, e)
    \/ ExtractReply(1)
    \/ AppendReply(1)
    \/ FeedBack(1)

Spec == Init /\ [][Next]_vars

\* two callers whose invocations interleave step by step
NextConc ==
    \/ \E c \in Callers : \E h \in ConcHistories(c) : Call(c, h)
    \/ \E c \in Callers : EnsureSystemPrompt(c)
    \/ \E c \in Callers : Completion(c)
    \/ \E c \in Callers : \E resp \in Responses(c, MaxConcReply) : ProviderReturns(c, resp)
    \/ \E c \in Callers : \E e \in ProviderErrors : ProviderRaises(c, e)
    \/ \E c \in Callers : ExtractReply(c)
    \/ \E c \in Callers : AppendReply(c)

SpecConc == Init /\ [][NextConc]_vars

\* ---- properties -----------------------------------------------------------

\* the message {"role": "system", "content": SYSTEM_PROMPT}
SystemPromptMessage == [role |-> "system", content |-> SYSTEM_PROMPT]

StartsWithSystem(h) == h # <<>> /\ h[1].role = "system"

HasSent(c) == requests[c] # <<>>
Sent(c) == requests[c][1].messages
Result(c) == Deref(heap, ret[c])
ReplyText(c) == provider_out[c].value.choices[1].message.content.val

SysCount(h) == Cardinality({i \in 1..Len(h) : h[i].role = "system"})

\* t is r without its leading and trailing whitespace
IsTrimOf(t, r) ==
    \E i \in 0..Len(r) : \E j \in 0..(Len(r) - i) :
        /\ t = SubSeq(r, i + 1, Len(r) - j)
        /\ \A k \in 1..i : r[k] \in Whitespace
        /\ \A k \in (Len(r) - j + 1)..Len(r) : r[k] \in Whitespace
        /\ t # <<>> => (t[1] \notin Whitespace /\ t[Len(t)] \notin Whitespace)

Malformed(resp) ==
    \/ "choices" \notin DOMAIN resp
    \/ resp.choices = <<>>
    \/ "message" \notin DOMAIN resp.choices[1]
    \/ "content" \notin DOMAIN resp.choices[1].message
    \/ resp.choices[1].message.content.type # "str"

\* C1: when the history is empty or does not start with a system message,
\* the provider receives the system-prompt message followed by the history
\* in its original order, and nothing else.
C1_PromptPrepended ==
    \A c \in Callers :
        (HasSent(c) /\ ~StartsWithSystem(passed[c]))
            => /\ Sent(c) = <<SystemPromptMessage>> \o passed[c]
               /\ Len(Sent(c)) = Len(passed[c]) + 1

\* a request was sent for a history with a system message in second place
C1_Witness ==
    \E c \in Callers :
        /\ HasSent(c)
        /\ Len(passed[c]) = 2
        /\ passed[c][1].role = "user"
        /\ passed[c][2].role = "system"

\* C2: when the history starts with a system message, the provider receives
\* exactly the history, and no system-prompt message is built.
C2_SentUnchanged ==
    \A c \in Callers :
        (HasSent(c) /\ StartsWithSystem(passed[c]))
            => /\ Sent(c) = passed[c]
               /\ heap[c].working = <<>>
               /\ locals[Frame(c)].current_messages = locals[Frame(c)].messages

\* a request was sent for a first call's history that starts with a system
\* message whose text is not the system prompt
C2_Witness ==
    \E c \in Callers :
        /\ HasSent(c)
        /\ ~fedBack[c]
        /\ Len(passed[c]) = 2
        /\ passed[c][1] = Message("system", <<"a">>)

\* C3: a returned history is the list that was sent followed by exactly one
\* assistant message whose content is the provider's reply trimmed; a reply
\* of whitespace only gives the empty text.
C3_ResultIsWorkingPlusReply ==
    \A c \in Callers :
        pc[c] = "returned"
            => LET working == Sent(c)
                   res == Result(c)
                   last == res[Len(res)]
               IN /\ Len(res) = Len(working) + 1
                  /\ \A i \in 1..Len(working) : res[i] = working[i]
                  /\ last.role = "assistant"
                  /\ IsTrimOf(last.content, ReplyText(c))
                  /\ (\A k \in 1..Len(ReplyText(c)) : ReplyText(c)[k] \in Whitespace)
                        => last.content = <<>>

\* a history was returned for a reply with whitespace on both sides of a letter
C3_Witness ==
    \E c \in Callers :
        /\ pc[c] = "returned"
        /\ ReplyText(c) = <<" ", "a", "\n">>
        /\ Result(c)[Len(Result(c))] = Message("assistant", <<"a">>)

\* C4: a second call that is given the first call's output finds a system
\* message in first place, injects nothing, sends the first call's output
\* unchanged, and the number of system messages does not grow.
C4_NoSecondInjection ==
    \A c \in Callers :
        fedBack[c]
            => /\ StartsWithSystem(passed[c])
               /\ heap[c].working = <<>>
               /\ HasSent(c) => /\ Sent(c) = passed[c]
                                /\ SysCount(Sent(c)) = SysCount(passed[c])
               /\ pc[c] = "returned" => SysCount(Result(c)) = SysCount(passed[c])

\* the second call returned, the first call had injected the prompt
C4_Witness ==
    \E c \in Callers :
        /\ fedBack[c]
        /\ pc[c] = "returned"
        /\ passed[c][1] = SystemPromptMessage
        /\ Len(passed[c]) = 3
        /\ passed[c][2].role = "user"

\* C5: when the provider call raises, the same exception leaves
\* get_agent_response; nothing is returned, no list with an assistant reply
\* is built and the caller's history is as it was.
C5_ProviderFailurePropagates ==
    \A c \in Callers :
        provider_out[c].kind = "raise"
            => /\ pc[c] = "raised"
               /\ exc[c] = provider_out[c].exc
               /\ ret[c] = NoRef
               /\ heap[c].updated = <<>>
               /\ heap[c].arg = passed[c]
               /\ locals[Frame(c)].updated_messages = NoRef

\* the provider raised during a call with a history of two messages
C5_Witness ==
    \E c \in Callers :
        /\ provider_out[c].kind = "raise"
        /\ pc[c] = "raised"
        /\ exc[c] = "AuthenticationError"
        /\ Len(passed[c]) = 2

\* C6: when the provider returns a response without choices[0].message.content
\* as a text, the invocation does not get past the extraction; it never
\* returns a history and builds no assistant message, and it ends with an
\* exception.
C6_MalformedResponseIsFatal ==
    \A c \in Callers :
        (provider_out[c].kind = "return" /\ Malformed(provider_out[c].value))
            => /\ pc[c] \in {"line166", "raised"}
               /\ ret[c] = NoRef
               /\ heap[c].updated = <<>>
               /\ locals[Frame(c)].assistant_reply_content = Unbound
               /\ pc[c] = "raised" => exc[c] \in {"KeyError", "IndexError", "AttributeError"}

\* the invocation failed on a response whose content is None
C6_Witness ==
    \E c \in Callers :
        /\ provider_out[c].kind = "return"
        /\ provider_out[c].value = [choices |-> << Choice(PyNone) >>]
        /\ pc[c] = "raised"
        /\ exc[c] = "AttributeError"

\* C7: an invocation makes no provider call before line 161 and exactly one
\* from then on, whether it returns or fails, for every history.
C7_ExactlyOneProviderCall ==
    \A c \in Callers :
        /\ pc[c] \in {"idle", "line156", "line161"} => Len(requests[c]) = 0
        /\ pc[c] \in {"awaiting", "line166", "line172", "returned", "raised"}
              => Len(requests[c]) = 1

\* an invocation with the empty history failed after its one provider call
C7_Witness ==
    \E c \in Callers :
        /\ pc[c] = "raised"
        /\ passed[c] = <<>>
        /\ Len(requests[c]) = 1
        /\ exc[c] = "IndexError"

\* C8 as stated: the first message the provider receives is always the
\* message {system, SYSTEM_PROMPT}.
C8_Original ==
    \A c \in Callers :
        HasSent(c) => Sent(c)[1] = SystemPromptMessage

\* C8 amended: the first message the provider receives always has role
\* system; it is the system-prompt message unless the history starts with a
\* system message, and then it is the history's own first message.
C8_FirstSentIsSystem ==
    \A c \in Callers :
        HasSent(c)
            => /\ Sent(c) # <<>>
               /\ Sent(c)[1].role = "system"
               /\ ~StartsWithSystem(passed[c]) => Sent(c)[1] = SystemPromptMessage
               /\ StartsWithSystem(passed[c]) => Sent(c)[1] = passed[c][1]

\* a request was sent whose first message is a system message of the caller
\* with another text than the system prompt
C8_Witness ==
    \E c \in Callers :
        /\ HasSent(c)
        /\ Sent(c)[1].role = "system"
        /\ Sent(c)[1].content # SYSTEM_PROMPT

\* the texts that belong to caller c's conversation
OwnTexts(c) ==
    {SYSTEM_PROMPT} \cup Replies(c, MaxConcReply)

\* what an invocation that runs alone sends for the history h
AloneWorking(h) ==
    IF StartsWithSystem(h) THEN h ELSE <<SystemPromptMessage>> \o h

Independent(c) ==
    /\ HasSent(c)
          => /\ requests[c] = << [model |-> model_name, messages |-> AloneWorking(passed[c])] >>
             /\ \A i \in 1..Len(Sent(c)) : Sent(c)[i].content \in OwnTexts(c)
    /\ pc[c] = "returned"
          => /\ Len(Result(c)) = Len(AloneWorking(passed[c])) + 1
             /\ SubSeq(Result(c), 1, Len(Result(c)) - 1) = AloneWorking(passed[c])
             /\ Result(c)[Len(Result(c))].role = "assistant"
             /\ IsTrimOf(Result(c)[Len(Result(c))].content, ReplyText(c))
             /\ \A i \in 1..Len(Result(c)) : Result(c)[i].content \in OwnTexts(c)
    /\ pc[c] # "idle" => heap[c].arg = passed[c]

\* C9: in every interleaving of two invocations, each one's request and
\* returned history are what it would send and return alone for its own
\* history and its own provider reply, no text of the other caller appears
\* in them, and SYSTEM_PROMPT and MODEL_NAME are never written.
C9_ConcurrentCallsIndependent ==
    /\ [](\A c \in Callers : Independent(c))
    /\ [](system_prompt = SYSTEM_PROMPT)
    /\ [][system_prompt' = system_prompt /\ model_name' = model_name]_vars

\* both invocations are inside get_agent_response at the same time, past
\* their provider calls, with different histories
C9_Witness ==
    /\ pc[1] = "line172"
    /\ pc[2] = "line166"
    /\ passed[1] = <<Message("user", <<"a">>)>>
    /\ passed[2] = <<Message("system", <<"b">>)>>

\* C10: the list the caller passed in keeps its length and elements through
\* the call, whether the call returns or fails; the returned list is another
\* list object, and only it holds the assistant reply.
C10_CallerHistoryUntouched ==
    \A c \in Callers :
        pc[c] # "idle"
            => /\ heap[c].arg = passed[c]
               /\ Len(heap[c].arg) = Len(passed[c])
               /\ pc[c] = "returned"
                     => /\ ret[c] # locals[Frame(c)].messages
                        /\ Len(Result(c)) > Len(heap[c].arg)

\* a call returned whose working list was the caller's own list
C10_Witness ==
    \E c \in Callers :
        /\ pc[c] = "returned"
        /\ ~fedBack[c]
        /\ StartsWithSystem(passed[c])
        /\ locals[Frame(c)].current_messages = Ref(c, "arg")
        /\ Len(passed[c]) = 2

====
